---- MODULE Spec2Model ----
(***************************************************************************)
(* Model of slither/tools/properties/properties/auto.py: the trace         *)
(* analysis (detect_token_props), the property synthesis (AUTO_token_max), *)
(* the artifact pipeline (generate_auto) and checksum_encode.              *)
(*                                                                         *)
(* Python strings are sequences of one-character strings, so that slicing, *)
(* lower(), replace() and int(.., 16) are computed as Python computes      *)
(* them.  Python integers are unbounded: int(s, 16) is kept as its list of *)
(* base-16 digits without leading zeros.  None is the empty tuple and an   *)
(* optional value v is <<v>>.                                              *)
(***************************************************************************)
EXTENDS Integers, Sequences, FiniteSets, TLC

VARIABLES file, attacker, max_balance_arg,
          pc, txs, max_balance, accounts, last_create, tokens, i,
          init_txs, samples_txs, properties, fs, config_accounts,
          error, failed_in,
          hex_addr, encoded, reencoded, cs_pc, hashed

vars == <<file, attacker, max_balance_arg,
          pc, txs, max_balance, accounts, last_create, tokens, i,
          init_txs, samples_txs, properties, fs, config_accounts,
          error, failed_in,
          hex_addr, encoded, reencoded, cs_pc, hashed>>

pipeline_vars == <<file, attacker, max_balance_arg,
          pc, txs, max_balance, accounts, last_create, tokens, i,
          init_txs, samples_txs, properties, fs, config_accounts,
          error, failed_in>>

checksum_vars == <<hex_addr, encoded, reencoded, cs_pc, hashed>>

\* ------------------------------------------------------------------------
\* Bounds

\* longest trace read from the input file
MaxTrace == 3

\* longest hex body of an address given to checksum_encode
MaxAddrLen == 2

\* ------------------------------------------------------------------------
\* Python string primitives

None == <<>>

DecDigits == {"0", "1", "2", "3", "4", "5", "6", "7", "8", "9"}

LowerHexLetters == {"a", "b", "c", "d", "e", "f"}

UpperHexLetters == {"A", "B", "C", "D", "E", "F"}

\* str.lower() on one character
LowerChar(c) ==
    CASE c = "A" -> "a" [] c = "B" -> "b" [] c = "C" -> "c"
      [] c = "D" -> "d" [] c = "E" -> "e" [] c = "F" -> "f"
      [] c = "X" -> "x" [] OTHER -> c

\* str.upper() on one character
UpperChar(c) ==
    CASE c = "a" -> "A" [] c = "b" -> "B" [] c = "c" -> "C"
      [] c = "d" -> "D" [] c = "e" -> "E" [] c = "f" -> "F"
      [] c = "x" -> "X" [] OTHER -> c

\* s.lower()
Lower(s) == [k \in 1..Len(s) |-> LowerChar(s[k])]

\* s.replace("0x", ""): every non-overlapping occurrence, left to right
RECURSIVE Replace0x(_)
Replace0x(s) ==
    IF s = <<>> THEN <<>>
    ELSE IF Len(s) >= 2 /\ s[1] = "0" /\ s[2] = "x"
         THEN Replace0x(SubSeq(s, 3, Len(s)))
         ELSE <<s[1]>> \o Replace0x(Tail(s))

\* s[:n]
Take(s, n) == SubSeq(s, 1, IF Len(s) < n THEN Len(s) ELSE n)

\* value of one base-16 digit, -1 for any other character
HexVal(c) ==
    CASE c = "0" -> 0 [] c = "1" -> 1 [] c = "2" -> 2 [] c = "3" -> 3
      [] c = "4" -> 4 [] c = "5" -> 5 [] c = "6" -> 6 [] c = "7" -> 7
      [] c = "8" -> 8 [] c = "9" -> 9
      [] c \in {"a", "A"} -> 10 [] c \in {"b", "B"} -> 11
      [] c \in {"c", "C"} -> 12 [] c \in {"d", "D"} -> 13
      [] c \in {"e", "E"} -> 14 [] c \in {"f", "F"} -> 15
      [] OTHER -> -1

RECURSIVE StripZeros(_)
StripZeros(ds) ==
    IF ds # <<>> /\ ds[1] = 0 THEN StripZeros(Tail(ds)) ELSE ds

\* int(s, 16): an optional 0x / 0X prefix, then at least one hex digit;
\* anything else raises ValueError (ok = FALSE).  The strings of this model
\* hold no sign, underscore or white space.
IntOf(s) ==
    LET body == IF Len(s) >= 2 /\ s[1] = "0" /\ s[2] \in {"x", "X"}
                THEN SubSeq(s, 3, Len(s)) ELSE s
        ok   == body # <<>> /\ \A k \in 1..Len(body) : HexVal(body[k]) >= 0
    IN  [ok     |-> ok,
         digits |-> IF ok THEN StripZeros([k \in 1..Len(body) |-> HexVal(body[k])])
                    ELSE <<>>]

\* the number a digit list stands for (addresses of the model are short)
RECURSIVE NatOf(_)
NatOf(ds) ==
    IF ds = <<>> THEN 0 ELSE NatOf(SubSeq(ds, 1, Len(ds) - 1)) * 16 + ds[Len(ds)]

DecChar(d) ==
    CASE d = 0 -> "0" [] d = 1 -> "1" [] d = 2 -> "2" [] d = 3 -> "3"
      [] d = 4 -> "4" [] d = 5 -> "5" [] d = 6 -> "6" [] d = 7 -> "7"
      [] d = 8 -> "8" [] OTHER -> "9"

\* str(n) for a natural number n
RECURSIVE Str(_)
Str(n) == IF n < 10 THEN <<DecChar(n)>> ELSE Str(n \div 10) \o <<DecChar(n % 10)>>

\* ------------------------------------------------------------------------
\* Selectors

\* get_function_id(sig): the first four bytes of keccak256(sig), as an int
get_function_id(sig) ==
    CASE sig = "transfer(address,uint256)" -> <<10, 9, 0, 5, 9, 12, 11, 11>>
      [] sig = "balanceOf(address)"        -> <<7, 0, 10, 0, 8, 2, 3, 1>>
      [] sig = "approve(address,uint256)"  -> <<9, 5, 14, 10, 7, 11, 3>>

erc20_sigs ==
    {get_function_id("transfer(address,uint256)"),
     get_function_id("balanceOf(address)"),
     get_function_id("approve(address,uint256)")}

\* ------------------------------------------------------------------------
\* Inputs: the events a trace file is made of

Create(f) == [event |-> "ContractCreated", from |-> f, to |-> <<>>, data |-> <<>>]

Call(f, t, d) == [event |-> "FunctionCall", from |-> f, to |-> t, data |-> d]

\* balanceOf(address) followed by one byte of argument
DataBalanceOf == <<"0", "x", "7", "0", "a", "0", "8", "2", "3", "1", "0", "0">>

\* transfer(address,uint256), selector only
DataTransfer == <<"0", "x", "a", "9", "0", "5", "9", "c", "b", "b">>

\* approve(address,uint256), selector only
DataApprove == <<"0", "x", "0", "9", "5", "e", "a", "7", "b", "3">>

\* an unknown selector
DataOther == <<"0", "x", "1", "2", "3", "4", "5", "6", "7", "8">>

\* empty call data
DataEmpty == <<"0", "x">>

\* seven hex digits: shorter than a selector
DataShort == <<"0", "x", "9", "5", "e", "a", "7", "b", "3">>

TraceEvents ==
    {Create(<<"0", "x", "a", "b">>),
     Call(<<"0", "x", "A", "B">>, <<"0", "x", "c", "d">>, DataBalanceOf),
     Call(<<"0", "x", "a", "b">>, <<"c", "d">>, DataBalanceOf),
     Call(<<"0", "x", "c", "d">>, <<"0", "x", "e", "f">>, DataTransfer),
     Call(<<"0", "x", "a", "b">>, <<"0", "x", "e", "f">>, DataOther),
     Call(<<"0", "x", "a", "b">>, <<"0", "x", "1", "2">>, DataEmpty),
     Call(<<"0", "x", "a", "b">>, <<"0", "x", "1", "2">>, DataShort),
     Call(<<"0", "x", "a", "b">>, <<"0", "x", "g">>, DataApprove),
     [event |-> "ContractDestroyed", from |-> <<"0", "x", "9", "9">>,
      to |-> <<>>, data |-> <<>>]}

Traces == UNION {[1..n -> TraceEvents] : n \in 0..MaxTrace}

Attackers == {<<"0", "x", "a", "b">>, <<"0", "x", "e", "e">>}

MaxBalanceArgs == {None, <<12>>}

\* ------------------------------------------------------------------------
\* detect_token_props

\* int(selector, 16) in erc20_sigs, for selector = tx["data"][:10]
SelectorMatches(data) ==
    LET selector == IntOf(Take(data, 10))
    IN  [ok |-> selector.ok, member |-> selector.ok /\ selector.digits \in erc20_sigs]

\* InsertToken with the bug of moving a key written again to the end
InsertTokenMoveToEnd(toks, addr, mb) ==
    Append(SelectSeq(toks, LAMBDA e : e.addr # addr), [addr |-> addr, max_balance |-> mb])

\* tokens[addr] = max_balance on an OrderedDict: a new key goes last, an
\* existing key keeps its position and takes the value
InsertToken(toks, addr, mb) ==
    IF \E k \in 1..Len(toks) : toks[k].addr = addr
    THEN [k \in 1..Len(toks) |->
             IF toks[k].addr = addr THEN [addr |-> addr, max_balance |-> mb]
             ELSE toks[k]]
    ELSE Append(toks, [addr |-> addr, max_balance |-> mb])

\* SplitTrace with the bug of starting last_create at -1 instead of None
SplitTraceFromMinusOne(t, lc) ==
    LET idx == IF lc = None THEN -1 ELSE lc[1]
    IN  [ok |-> TRUE,
         init |-> SubSeq(t, 1, idx + 1),
         samples |-> SubSeq(t, idx + 2, Len(t))]

\* (txs[:last_create+1], txs[last_create+1:]); None + 1 raises TypeError
SplitTrace(t, lc) ==
    IF lc = None
    THEN [ok |-> FALSE, init |-> <<>>, samples |-> <<>>]
    ELSE [ok |-> TRUE,
          init |-> SubSeq(t, 1, lc[1] + 1),
          samples |-> SubSeq(t, lc[1] + 2, Len(t))]

\* ------------------------------------------------------------------------
\* AUTO_token_max

PropertyName(token, mb) ==
    <<"crytic_attacker_cannot_get_tokens_more_than_">> \o Str(mb)
        \o <<"_from_">> \o Replace0x(token) \o <<"()">>

PropertyContent(token, attacker_address, mb) ==
    <<"\n\t\treturn HasBalance(address(">> \o Str(NatOf(IntOf(token).digits))
        \o <<")).balanceOf(address(">> \o Str(NatOf(IntOf(attacker_address).digits))
        \o <<")) <= ">> \o Str(mb) \o <<" ;">>

Property(token, attacker_address, mb) ==
    [name |-> PropertyName(token, mb),
     description |-> "The attacker address should not receive tokens.",
     content |-> PropertyContent(token, attacker_address, mb),
     type |-> "CODE_QUALITY",
     return_type |-> "SUCCESS",
     is_unit_test |-> FALSE,
     is_property_test |-> TRUE,
     caller |-> "ANY"]

\* AUTO_token_max with the bug of leaving out the last token
AUTO_token_max_SkipLast(attacker_address, toks) ==
    LET ok == \A k \in 1..Len(toks) :
                  IntOf(toks[k].addr).ok /\ IntOf(attacker_address).ok
    IN  [ok |-> ok,
         ps |-> IF ok
                THEN [k \in 1..(Len(toks) - 1) |->
                         Property(toks[k].addr, attacker_address, toks[k].max_balance)]
                ELSE <<>>]

\* one Property per item of tokens, in order; int(token, 16) or
\* int(attacker_address, 16) raises ValueError on a string that is not hex
AUTO_token_max(attacker_address, toks) ==
    LET ok == \A k \in 1..Len(toks) :
                  IntOf(toks[k].addr).ok /\ IntOf(attacker_address).ok
    IN  [ok |-> ok,
         ps |-> IF ok
                THEN [k \in 1..Len(toks) |->
                         Property(toks[k].addr, attacker_address, toks[k].max_balance)]
                ELSE <<>>]

\* ------------------------------------------------------------------------
\* generate_auto

\* StepOrder with the bug of writing the samples before the init trace
StepOrderSamplesFirst ==
    <<"load", "detect", "synth", "mkdir", "get_properties", "interface",
      "properties_file", "test_contract", "samples_file", "init_file", "config">>

\* the statements of generate_auto, in program order
StepOrder ==
    <<"load", "detect", "synth", "mkdir", "get_properties", "interface",
      "properties_file", "test_contract", "init_file", "samples_file", "config">>

NextPc(p) ==
    LET k == CHOOSE j \in 1..Len(StepOrder) : StepOrder[j] = p
    IN  IF k = Len(StepOrder) THEN "done" ELSE StepOrder[k + 1]

Init ==
    /\ file \in Traces
    /\ attacker \in Attackers
    /\ max_balance_arg \in MaxBalanceArgs
    /\ pc = StepOrder[1]
    /\ txs = <<>>
    /\ max_balance = 0
    /\ accounts = {}
    /\ last_create = None
    /\ tokens = <<>>
    /\ i = 0
    /\ init_txs = <<>>
    /\ samples_txs = <<>>
    /\ properties = <<>>
    /\ fs = <<>>
    /\ config_accounts = <<>>
    /\ error = ""
    /\ failed_in = ""
    /\ hex_addr = <<>>
    /\ encoded = <<>>
    /\ reencoded = <<>>
    /\ cs_pc = "idle"
    /\ hashed = {}

\* txs = json.load(open(filename))
Load ==
    /\ pc = "load"
    /\ txs' = file
    /\ pc' = NextPc("load")
    /\ UNCHANGED <<file, attacker, max_balance_arg, max_balance, accounts,
                   last_create, tokens, i, init_txs, samples_txs, properties,
                   fs, config_accounts, error, failed_in>>
    /\ UNCHANGED checksum_vars

\* entry of detect_token_props: the locals and the default of max_balance
DetectEnter ==
    /\ pc = "detect"
    /\ accounts' = {}
    /\ last_create' = None
    /\ tokens' = <<>>
    /\ max_balance' = IF max_balance_arg = None THEN 0 ELSE max_balance_arg[1]
    /\ i' = 0
    /\ pc' = "scan"
    /\ UNCHANGED <<file, attacker, max_balance_arg, txs, init_txs, samples_txs,
                   properties, fs, config_accounts, error, failed_in>>
    /\ UNCHANGED checksum_vars

\* one iteration of the loop on a ContractCreated event
ScanCreate ==
    /\ pc = "scan"
    /\ i < Len(txs)
    /\ txs[i + 1].event = "ContractCreated"
    /\ accounts' = accounts \cup {txs[i + 1].from}
    /\ last_create' = <<i>>
    /\ i' = i + 1
    /\ UNCHANGED <<file, attacker, max_balance_arg, pc, txs, max_balance, tokens,
                   init_txs, samples_txs, properties, fs, config_accounts,
                   error, failed_in>>
    /\ UNCHANGED checksum_vars

\* one iteration of the loop on a FunctionCall event
ScanCall ==
    /\ pc = "scan"
    /\ i < Len(txs)
    /\ txs[i + 1].event = "FunctionCall"
    /\ accounts' = accounts \cup {txs[i + 1].from}
    /\ LET m == SelectorMatches(txs[i + 1].data)
       IN  IF m.ok
           THEN /\ tokens' = IF m.member
                             THEN InsertToken(tokens, txs[i + 1].to, max_balance)
                             ELSE tokens
                /\ i' = i + 1
                /\ UNCHANGED <<pc, error, failed_in>>
           ELSE /\ pc' = "failed"
                /\ error' = "ValueError"
                /\ failed_in' = "detect_token_props"
                /\ UNCHANGED <<tokens, i>>
    /\ UNCHANGED <<file, attacker, max_balance_arg, txs, max_balance, last_create,
                   init_txs, samples_txs, properties, fs, config_accounts>>
    /\ UNCHANGED checksum_vars

\* one iteration of the loop on an event of any other kind
ScanOther ==
    /\ pc = "scan"
    /\ i < Len(txs)
    /\ txs[i + 1].event \notin {"ContractCreated", "FunctionCall"}
    /\ i' = i + 1
    /\ UNCHANGED <<file, attacker, max_balance_arg, pc, txs, max_balance, accounts,
                   last_create, tokens, init_txs, samples_txs, properties, fs,
                   config_accounts, error, failed_in>>
    /\ UNCHANGED checksum_vars

\* the return statement of detect_token_props and the unpacking in generate_auto
DetectReturn ==
    /\ pc = "scan"
    /\ i = Len(txs)
    /\ LET r == SplitTrace(txs, last_create)
       IN  IF r.ok
           THEN /\ init_txs' = r.init
                /\ samples_txs' = r.samples
                /\ pc' = NextPc("detect")
                /\ UNCHANGED <<error, failed_in>>
           ELSE /\ pc' = "failed"
                /\ error' = "TypeError"
                /\ failed_in' = "detect_token_props"
                /\ UNCHANGED <<init_txs, samples_txs>>
    /\ UNCHANGED <<file, attacker, max_balance_arg, txs, max_balance, accounts,
                   last_create, tokens, i, properties, fs, config_accounts>>
    /\ UNCHANGED checksum_vars

\* properties = AUTO_token_max(addresses.attacker, tokens)
Synth ==
    /\ pc = "synth"
    /\ LET r == AUTO_token_max(attacker, tokens)
       IN  IF r.ok
           THEN /\ properties' = r.ps
                /\ pc' = NextPc("synth")
                /\ UNCHANGED <<error, failed_in>>
           ELSE /\ pc' = "failed"
                /\ error' = "ValueError"
                /\ failed_in' = "AUTO_token_max"
                /\ UNCHANGED properties
    /\ UNCHANGED <<file, attacker, max_balance_arg, txs, max_balance, accounts,
                   last_create, tokens, i, init_txs, samples_txs, fs,
                   config_accounts>>
    /\ UNCHANGED checksum_vars

\* a statement of generate_auto that writes one artifact
Emit(step, artifact) ==
    /\ pc = step
    /\ fs' = Append(fs, artifact)
    /\ pc' = NextPc(step)
    /\ UNCHANGED <<file, attacker, max_balance_arg, txs, max_balance, accounts,
                   last_create, tokens, i, init_txs, samples_txs, properties,
                   config_accounts, error, failed_in>>
    /\ UNCHANGED checksum_vars

\* output_dir.mkdir(exist_ok=True)
Mkdir == Emit("mkdir", "output_dir")

\* solidity_properties, unit_tests = _get_properties(slither, properties)
GetProperties ==
    /\ pc = "get_properties"
    /\ pc' = NextPc("get_properties")
    /\ UNCHANGED <<file, attacker, max_balance_arg, txs, max_balance, accounts,
                   last_create, tokens, i, init_txs, samples_txs, properties, fs,
                   config_accounts, error, failed_in>>
    /\ UNCHANGED checksum_vars

\* generate_solidity_interface(output_dir, addresses)
Interface == Emit("interface", "interface")

\* generate_solidity_properties_no_contract(...)
PropertiesFile == Emit("properties_file", "properties")

\* generate_test_contract_no_contract(...)
TestContract == Emit("test_contract", "test_contract")

\* json.dump(init_txs, outfile) into filename + ".init"
InitFile == Emit("init_file", ".init")

\* json.dump(samples_txs, outfile) into filename + ".samples"
SamplesFile == Emit("samples_file", ".samples")

\* the orders list(s) can give the elements of the set s
Listings(s) ==
    {l \in [1..Cardinality(s) -> s] : \A j, k \in 1..Cardinality(s) : l[j] = l[k] => j = k}

\* accounts.add(addresses.attacker);
\* generate_echidna_auto_config(".", list(accounts), init_file, samples_file, crytic_args)
Config ==
    /\ pc = "config"
    /\ accounts' = accounts \cup {attacker}
    /\ config_accounts' \in Listings(accounts')
    /\ fs' = Append(fs, "echidna_config")
    /\ pc' = NextPc("config")
    /\ UNCHANGED <<file, attacker, max_balance_arg, txs, max_balance, last_create,
                   tokens, i, init_txs, samples_txs, properties, error, failed_in>>
    /\ UNCHANGED checksum_vars

Next ==
    \/ Load
    \/ DetectEnter
    \/ ScanCreate
    \/ ScanCall
    \/ ScanOther
    \/ DetectReturn
    \/ Synth
    \/ Mkdir
    \/ GetProperties
    \/ Interface
    \/ PropertiesFile
    \/ TestContract
    \/ InitFile
    \/ SamplesFile
    \/ Config

Spec == Init /\ [][Next]_vars

\* ------------------------------------------------------------------------
\* checksum_encode

\* HashInput with the bug of not lower-casing the address
HashInputNoLower(a) == Replace0x(a)

\* hex_addr.lower().replace("0x", ""): the string that is hashed and walked
HashInput(a) == Replace0x(Lower(a))

\* the loop and the return of checksum_encode, for the lowercase string h and
\* the nibbles hashed_address of its digest; a character outside 0-9a-f
\* ends in assert(False)
ChecksumBuffer(h, hashed_address) ==
    LET ok == \A k \in 1..Len(h) : h[k] \in DecDigits \cup LowerHexLetters
    IN  [ok |-> ok,
         out |-> IF ok
                 THEN <<"0", "x">> \o
                      [k \in 1..Len(h) |->
                          IF h[k] \in DecDigits THEN h[k]
                          ELSE IF hashed_address[k] > 7 THEN UpperChar(h[k])
                          ELSE h[k]]
                 ELSE <<>>]

checksum_encode(a, hashed_address) == ChecksumBuffer(HashInput(a), hashed_address)

\* values a nibble of the digest takes, on both sides of the test "> 7"
Nibbles == {0, 7, 8, 15}

\* hashlib.sha3_512(h).hexdigest(), as far as the loop reads it: one nibble
\* per character of h.  The digest is a function of h: a string hashed
\* before gets the digest it got then, a new string gets any digest.
Digests(h) ==
    IF \E r \in hashed : r.msg = h
    THEN {r.digest : r \in {q \in hashed : q.msg = h}}
    ELSE [1..Len(h) -> Nibbles]

AddrChars == {"1", "a", "B", "g"}

AddrPrefixes == {<<>>, <<"0", "x">>, <<"0", "X">>}

HexAddrs ==
    {p \o b : p \in AddrPrefixes,
              b \in UNION {[1..n -> AddrChars] : n \in 0..MaxAddrLen}}

InitChecksum ==
    /\ hex_addr \in HexAddrs
    /\ encoded = <<>>
    /\ reencoded = <<>>
    /\ cs_pc = "start"
    /\ hashed = {}
    /\ file = <<>>
    /\ attacker = <<>>
    /\ max_balance_arg = None
    /\ pc = "idle"
    /\ txs = <<>>
    /\ max_balance = 0
    /\ accounts = {}
    /\ last_create = None
    /\ tokens = <<>>
    /\ i = 0
    /\ init_txs = <<>>
    /\ samples_txs = <<>>
    /\ properties = <<>>
    /\ fs = <<>>
    /\ config_accounts = <<>>
    /\ error = ""
    /\ failed_in = ""

\* encoded = checksum_encode(hex_addr)
Encode ==
    /\ cs_pc = "start"
    /\ \E d \in Digests(HashInput(hex_addr)) :
          LET r == checksum_encode(hex_addr, d)
          IN  /\ hashed' = hashed \cup {[msg |-> HashInput(hex_addr), digest |-> d]}
              /\ encoded' = r.out
              /\ cs_pc' = IF r.ok THEN "encoded" ELSE "failed"
    /\ UNCHANGED <<hex_addr, reencoded>>
    /\ UNCHANGED pipeline_vars

\* reencoded = checksum_encode(encoded)
ReEncode ==
    /\ cs_pc = "encoded"
    /\ \E d \in Digests(HashInput(encoded)) :
          LET r == checksum_encode(encoded, d)
          IN  /\ hashed' = hashed \cup {[msg |-> HashInput(encoded), digest |-> d]}
              /\ reencoded' = r.out
              /\ cs_pc' = IF r.ok THEN "reencoded" ELSE "failed"
    /\ UNCHANGED <<hex_addr, encoded>>
    /\ UNCHANGED pipeline_vars

NextChecksum ==
    \/ Encode
    \/ ReEncode

SpecChecksum == InitChecksum /\ [][NextChecksum]_vars

\* ------------------------------------------------------------------------
\* Vocabulary of the properties

Range(f) == {f[k] : k \in 1..Len(f)}

HasCreate(t) == \E k \in 1..Len(t) : t[k].event = "ContractCreated"

\* position (from 1) of the last ContractCreated event: lastCreateIndex + 1
LastCreatePos(t) ==
    CHOOSE k \in 1..Len(t) :
        /\ t[k].event = "ContractCreated"
        /\ \A j \in (k + 1)..Len(t) : t[j].event # "ContractCreated"

\* the hex digits of the three selectors, as they stand in call data
SelectorHex ==
    {<<"a", "9", "0", "5", "9", "c", "b", "b">>,
     <<"7", "0", "a", "0", "8", "2", "3", "1">>,
     <<"0", "9", "5", "e", "a", "7", "b", "3">>}

\* the data blob holds at least four bytes after its 0x prefix
HasSelector(data) ==
    /\ Len(data) >= 10
    /\ data[1] = "0"
    /\ data[2] = "x"
    /\ \A k \in 3..10 : HexVal(data[k]) >= 0

\* the leading four bytes of the data blob are one of the three selectors
IsErc20Call(e) ==
    /\ e.event = "FunctionCall"
    /\ HasSelector(e.data)
    /\ Lower(SubSeq(e.data, 3, 10)) \in SelectorHex

\* the `to` addresses of the matching calls of t, in first-seen order
RECURSIVE ExpectedKeys(_)
ExpectedKeys(t) ==
    IF t = <<>> THEN <<>>
    ELSE LET prev == ExpectedKeys(SubSeq(t, 1, Len(t) - 1))
             e    == t[Len(t)]
         IN  IF IsErc20Call(e) /\ e.to \notin Range(prev)
             THEN Append(prev, e.to) ELSE prev

TokenKeys == [k \in 1..Len(tokens) |-> tokens[k].addr]

\* an address string without its leading 0x / 0X
Body(a) ==
    IF Len(a) >= 2 /\ a[1] = "0" /\ a[2] \in {"x", "X"}
    THEN SubSeq(a, 3, Len(a)) ELSE a

\* a string of hex digits, with or without prefix
IsHex(a) == \A k \in 1..Len(Body(a)) : HexVal(Body(a)[k]) >= 0

\* detect_token_props has ended, by return or by exception
DetectEnded == pc \notin {"load", "detect", "scan"}

DetectFailed == pc = "failed" /\ failed_in = "detect_token_props"

DetectReturned == DetectEnded /\ ~DetectFailed

\* the loop of detect_token_props has gone through the whole trace
Scanned == pc \notin {"load", "detect"} /\ i = Len(txs)

\* AUTO_token_max has been called
SynthEnded == DetectReturned /\ pc # "synth"

SynthFailed == pc = "failed" /\ failed_in = "AUTO_token_max"

\* ------------------------------------------------------------------------
\* Properties

\* C1: for every trace with at least one ContractCreated event,
\* detect_token_props returns, initTrace followed by sampleTrace is the
\* trace, initTrace has length lastCreateIndex + 1 and ends with the last
\* ContractCreated event, and sampleTrace holds no ContractCreated event.
C1_SplitAtLastCreate ==
    (DetectEnded /\ HasCreate(txs)) =>
        /\ DetectReturned
        /\ init_txs \o samples_txs = txs
        /\ Len(init_txs) = LastCreatePos(txs)
        /\ init_txs[Len(init_txs)].event = "ContractCreated"
        /\ \A k \in 1..Len(samples_txs) : samples_txs[k].event # "ContractCreated"

C3_TokensAreMatchingCalls ==
    Scanned => TokenKeys = ExpectedKeys(txs)

\* C4: during the scan, an entry of tokens never changes its ceiling or its
\* position: every step leaves the entries already there as they were.
C4_FirstWriteWins ==
    [][pc = "scan" =>
          /\ Len(tokens') >= Len(tokens)
          /\ \A k \in 1..Len(tokens) : tokens'[k] = tokens[k]]_vars

C4_Witness ==
    /\ pc = "scan"
    /\ i = 3
    /\ IsErc20Call(txs[1])
    /\ IsErc20Call(txs[2])
    /\ txs[3] = txs[1]
    /\ txs[2].to # txs[1].to
    /\ TokenKeys = <<txs[1].to, txs[2].to>>

\* C5: a FunctionCall whose data is shorter than a 4-byte selector is
\* non-matching: the scan does not fail on it, its `from` is in accounts, and
\* its `to` is in tokens only when another call puts it there.
C5_ShortDataIsNonMatching ==
    \A k \in 1..Len(txs) :
        (txs[k].event = "FunctionCall" /\ ~HasSelector(txs[k].data)) =>
            /\ ~(DetectFailed /\ error = "ValueError" /\ i = k - 1)
            /\ (pc = "scan" /\ k <= i) =>
                  /\ txs[k].from \in accounts
                  /\ txs[k].to \in Range(TokenKeys) =>
                        \E j \in 1..i : IsErc20Call(txs[j]) /\ txs[j].to = txs[k].to

\* C6: AUTO_token_max returns one record per entry of tokens, in order, the
\* k-th carrying the k-th token and its ceiling, every record a fuzz property
\* of kind code quality, expected to succeed, for any caller; no token, no
\* record.
C6_OneRecordPerToken ==
    (SynthEnded /\ IsHex(attacker) /\ \A k \in 1..Len(tokens) : IsHex(tokens[k].addr)) =>
        /\ ~SynthFailed
        /\ Len(properties) = Len(tokens)
        /\ \A k \in 1..Len(properties) :
              /\ properties[k].name =
                    <<"crytic_attacker_cannot_get_tokens_more_than_">>
                        \o Str(tokens[k].max_balance) \o <<"_from_">>
                        \o Body(tokens[k].addr) \o <<"()">>
              /\ properties[k].is_unit_test = FALSE
              /\ properties[k].is_property_test = TRUE
              /\ properties[k].caller = "ANY"
              /\ properties[k].type = "CODE_QUALITY"
              /\ properties[k].return_type = "SUCCESS"

C6_Witness ==
    /\ pc = "mkdir"
    /\ Len(tokens) = 2
    /\ Len(properties) = 2
    /\ max_balance = 12

\* C7: the names of the records of one run are pairwise distinct.
C7_NamesDistinct ==
    (SynthEnded /\ ~SynthFailed) =>
        \A j, k \in 1..Len(properties) :
            j # k => properties[j].name # properties[k].name

\* C8: on a valid hex address checksum_encode does not fail, its output is
\* the input up to letter case and the 0x prefix, and encoding the output
\* again gives the output.
C8_ChecksumIdempotent ==
    IsHex(hex_addr) =>
        /\ cs_pc # "failed"
        /\ cs_pc \in {"encoded", "reencoded"} =>
              /\ SubSeq(encoded, 1, 2) = <<"0", "x">>
              /\ Lower(Body(encoded)) = Lower(Body(hex_addr))
              /\ \A k \in 1..Len(Body(hex_addr)) :
                    Body(hex_addr)[k] \in DecDigits =>
                        Body(encoded)[k] = Body(hex_addr)[k]
        /\ cs_pc = "reencoded" => reencoded = encoded

C8_Witness ==
    /\ cs_pc = "reencoded"
    /\ hex_addr = <<"0", "X", "a", "B">>
    /\ encoded = <<"0", "x", "A", "b">>
    /\ reencoded = encoded

\* C9: the account list given to the fuzzer configuration holds the `from`
\* of every ContractCreated and FunctionCall event and the attacker, nothing
\* else, and no address twice, two strings that differ only in letter case
\* being the same address.
C9_AccountsDeduplicated ==
    pc = "done" =>
        /\ {Lower(config_accounts[k]) : k \in 1..Len(config_accounts)} =
              {Lower(txs[k].from) :
                  k \in {j \in 1..Len(txs) :
                            txs[j].event \in {"ContractCreated", "FunctionCall"}}}
                  \cup {Lower(attacker)}
        /\ \A j, k \in 1..Len(config_accounts) :
              j # k => Lower(config_accounts[j]) # Lower(config_accounts[k])

\* C10: nothing is written before the analysis and the synthesis have
\* succeeded, so a failure of either leaves no directory and no file; the
\* .init file is written before the .samples file, and that one before the
\* fuzzer configuration.
C10_AnalysisBeforeOutput ==
    /\ (DetectFailed \/ SynthFailed) => fs = <<>>
    /\ fs # <<>> => (SynthEnded /\ ~SynthFailed)
    /\ \A k \in 1..Len(fs) :
          /\ fs[k] # "output_dir" => fs[1] = "output_dir"
          /\ fs[k] = ".samples" => \E j \in 1..(k - 1) : fs[j] = ".init"
          /\ fs[k] = "echidna_config" => \E j \in 1..(k - 1) : fs[j] = ".samples"

C10_Witness ==
    /\ SynthFailed
    /\ tokens # <<>>
    /\ fs = <<>>

====
